---- MODULE Spec2Model ----
(***************************************************************************)
(* A model of the three example modules of rust-bdd-techniques:            *)
(*   centralized_dependencies.rs  the Arc-backed DependencyContainer, the  *)
(*                                Deps accessor trait and its consumers    *)
(*   trait_abstraction.rs         MyStruct<One, Two>, its two constructors *)
(*                                and the MyStructHandle trait             *)
(*   function_as_service.rs       LifeService and run_meaning_of_life      *)
(* Each behaviour runs one of the three modules (they share no state).     *)
(***************************************************************************)
EXTENDS Integers, Sequences, FiniteSets

VARIABLES
    module,     \* which source module this behaviour exercises
    \* ---- centralized_dependencies.rs ----
    arcs,       \* heap of Arc allocations: <<[impl, strong, alive], ...>>
    held,       \* held[t]: the DependencyContainer value owned by thread t
    pc,         \* pc[t]: what thread t is doing with its container
    lent,       \* lent[t]: the thread whose container t holds a borrow of, or 0
    acc,        \* acc[t]: the accessor call thread t is in, if any
    cons,       \* cons[t]: the consumer call thread t is in, and how far it is
    outLock,    \* the thread that holds the lock of stdout, or 0
    assembled,  \* the implementations supplied at assembly (history)
    io,         \* [out: lines on stdout so far, calls: call log of the call that printed the last]
    lastRef,    \* the reference returned by the most recent accessor call
    \* ---- trait_abstraction.rs ----
    structs,    \* the MyStruct values built so far, indexed by address
    ctor,       \* ctor[a]: how structs[a] was constructed (history)
    frames,     \* call stack of the handle-bound functions
    \* ---- function_as_service.rs ----
    service,    \* the LifeService value being prepared
    ran,        \* the service and number the last run_meaning_of_life got
    result,     \* what the last run_meaning_of_life returned
    lcalls,     \* call log of the last run_meaning_of_life
    lpc         \* where the caller of run_meaning_of_life is: "idle" or "sleeping"

depVars    == <<arcs, held, pc, lent, acc, cons, outLock, assembled, io, lastRef>>
handleVars == <<structs, ctor, frames>>
lifeVars   == <<service, ran, result, lcalls, lpc>>
vars       == <<module, depVars, handleVars, lifeVars>>

\* ---------------------------------------------------------------- bounds
MaxThreads == 2     \* threads that can be given the container to call on
MaxOut     == 2     \* lines of output a behaviour may print
MaxStructs == 2     \* MyStruct values a behaviour may construct
NRadius    == 2     \* numbers tried around the meaning of life

Threads == 1..MaxThreads
None    == "none"

\* =========================================================================
\* centralized_dependencies.rs
\* =========================================================================
\* The implementations of Foo and of Bar.
FooImpls == {"FooImplA", "FooImplB"}
BarImpls == {"BarImplA", "BarImplB"}

\* The implementations that are Clone: pub struct FooImplA; pub struct
\* FooImplB; pub struct BarImplA; pub struct BarImplB; derive nothing.
CloneImpls == {}

\* F: Clone / B: Clone
ImplIsClone(impl) == impl \in CloneImpls

Range(q) == {q[i] : i \in DOMAIN q}

Log(o, what) == [o EXCEPT !.calls = Append(@, what)]
Emit(o, line) == [o EXCEPT !.out = Append(@, line)]

\* impl Foo for FooImplA / FooImplB: println!
Foo_foo(impl, o) ==
    IF impl = "FooImplA" THEN Emit(Log(o, "FooImplA::foo"), "foo A")
                         ELSE Emit(Log(o, "FooImplB::foo"), "foo B")

\* impl Bar for BarImplA / BarImplB: println!
Bar_bar(impl, o) ==
    IF impl = "BarImplA" THEN Emit(Log(o, "BarImplA::bar"), "bar A")
                         ELSE Emit(Log(o, "BarImplB::bar"), "bar B")

\* Arc::new: a fresh allocation holding the value, strong count 1.
Arc_new(heap, impl) ==
    [heap |-> Append(heap, [impl |-> impl, strong |-> 1, alive |-> TRUE]),
     ptr  |-> Len(heap) + 1]

\* Arc::clone: one more strong reference to the same allocation.
Arc_clone(heap, p) ==
    [heap |-> [heap EXCEPT ![p].strong = @ + 1], ptr |-> p]

\* Drop for Arc: one strong reference fewer; the value is destroyed when the
\* count reaches zero.
Arc_drop(heap, p) ==
    [heap EXCEPT ![p].strong = @ - 1, ![p].alive = (heap[p].strong - 1 > 0)]

\* A container with both fields moved out (no value).
NoContainer == [foo |-> 0, bar |-> 0]
Full(c) == c.foo # 0 /\ c.bar # 0
\* Nothing assembled yet; no accessor called yet.
NoAssembly == [foo |-> None, bar |-> None]
NoRef == [thread |-> 0, slot |-> None, ptr |-> 0, valid |-> FALSE,
          during |-> [t \in Threads |-> None]]

\* #[derive(Clone)] pub struct DependencyContainer<F, B>: the derive
\* implements Clone for DependencyContainer<F, B> where F: Clone, B: Clone.
\* A container of any other instantiation has no clone.
HasClone(heap, self) ==
    ImplIsClone(heap[self.foo].impl) /\ ImplIsClone(heap[self.bar].impl)

bar_as_foo(self) == self.bar

\* fn foo(&self) -> &Self::FooImpl { &self.foo }
foo(self) == self.foo

foo_as_bar(self) == self.foo

\* fn bar(&self) -> &Self::BarImpl { &self.bar }
bar(self) == self.bar

\* pub fn do_foo<F: Foo>(&self, foo: &F) { foo.foo(); }
do_foo(heap, f, o) == Foo_foo(heap[f].impl, Log(o, "MyStruct::do_foo"))

\* pub fn do_bar<B: Bar>(&self, bar: &B) { bar.bar(); }
do_bar(heap, b, o) == Bar_bar(heap[b].impl, Log(o, "MyStruct::do_bar"))

use_my_struct_with_deps_bar(heap, deps, o) ==
    do_bar(heap, bar(deps), Log(Log(o, "use_my_struct_with_deps"), "Deps::bar"))

\* fn use_my_struct_with_deps<D: Deps>(my_struct, deps) { my_struct.do_foo(deps.foo()) }
use_my_struct_with_deps(heap, deps, o) ==
    do_foo(heap, foo(deps), Log(Log(o, "use_my_struct_with_deps"), "Deps::foo"))

\* fn use_my_struct_with_foo<F: Foo>(my_struct, foo) { my_struct.do_foo(foo) }
use_my_struct_with_foo(heap, f, o) ==
    do_foo(heap, f, Log(o, "use_my_struct_with_foo"))

\* The container thread t works on: its own, or the one it was lent.
Deps_of(t) == IF lent[t] # 0 THEN held[lent[t]] ELSE held[t]

\* Thread t has a container to call on: it owns one, or holds a &deps.
Uses(t) == pc[t] = "idle" \/ lent[t] # 0

\* No consumer call in progress.
NoConsumer == [stage |-> None, fn |-> None, o |-> [out |-> <<>>, calls |-> <<>>]]

\* Thread t has a container and is in no call on it.
Free(t) == Uses(t) /\ acc[t] = None /\ cons[t] = NoConsumer

\* What an accessor call by thread t returned: the reference (the allocation
\* it points into, and whether the value there still exists), with the
\* accessor calls the threads were in when it returned.
Ref(t, slot, p) ==
    [thread |-> t, slot |-> slot, ptr |-> p, valid |-> arcs[p].alive, during |-> acc]

NewCall == [out |-> <<>>, calls |-> <<>>]

\* The output is kept finite: the lines printed and those still to come.
CanPrint ==
    Len(io.out) + Cardinality({t \in Threads : cons[t] # NoConsumer}) < MaxOut

\* The consumer call fn from the return of its accessor up to println!:
\* the calls it makes and the line it is about to print.
Consume(fn, heap, deps, o) ==
    CASE fn = "do_foo" -> do_foo(heap, foo(deps), Log(o, "Deps::foo"))
      [] fn = "do_bar" -> do_bar(heap, bar(deps), Log(o, "Deps::bar"))
      [] fn = "use_my_struct_with_deps" -> use_my_struct_with_deps(heap, deps, o)
      [] fn = "use_my_struct_with_foo" ->
             use_my_struct_with_foo(heap, foo(deps), Log(o, "Deps::foo"))

\* let deps = DependencyContainer { foo: Arc::new(f), bar: Arc::new(b) };
Assemble(f, b) ==
    /\ module = "centralized_dependencies"
    /\ assembled = NoAssembly
    /\ LET a1 == Arc_new(arcs, f)
           a2 == Arc_new(a1.heap, b)
       IN /\ arcs' = a2.heap
          /\ held' = [held EXCEPT ![1] = [foo |-> a1.ptr, bar |-> a2.ptr]]
    /\ pc' = [pc EXCEPT ![1] = "idle"]
    /\ assembled' = [foo |-> f, bar |-> b]
    /\ UNCHANGED <<module, lent, acc, cons, outLock, io, lastRef, handleVars, lifeVars>>

\* #[derive(Clone)]: where the instantiation has Clone, the duplicate (here
\* handed to thread dst) is built field by field, each Arc<_> field by
\* Arc::clone. No instantiation this module can build has Clone, so this
\* step is never enabled and is no part of Next.
Clone(src, dst) ==
    /\ module = "centralized_dependencies"
    /\ pc[src] = "idle" /\ pc[dst] = None /\ src # dst
    /\ HasClone(arcs, held[src])
    /\ LET c1 == Arc_clone(arcs, held[src].foo)
           c2 == Arc_clone(c1.heap, held[src].bar)
       IN /\ arcs' = c2.heap
          /\ held' = [held EXCEPT ![dst] = [foo |-> c1.ptr, bar |-> c2.ptr]]
    /\ pc' = [pc EXCEPT ![dst] = "idle"]
    /\ UNCHANGED <<module, lent, acc, cons, outLock, assembled, io, lastRef,
                   handleVars, lifeVars>>

\* &deps: the holder o passes a borrow of its container to thread t ("we can
\* pass around the Deps by either borrowing or cloning").
Lend(o, t) ==
    /\ module = "centralized_dependencies"
    /\ pc[o] = "idle" /\ o # t
    /\ pc[t] = None /\ lent[t] = 0
    /\ lent' = [lent EXCEPT ![t] = o]
    /\ UNCHANGED <<module, arcs, held, pc, acc, cons, outLock, assembled, io,
                   lastRef, handleVars, lifeVars>>

\* The borrow ends: thread t is done with the container.
Release(t) ==
    /\ module = "centralized_dependencies"
    /\ lent[t] # 0 /\ Free(t)
    /\ lent' = [lent EXCEPT ![t] = 0]
    /\ UNCHANGED <<module, arcs, held, pc, acc, cons, outLock, assembled, io,
                   lastRef, handleVars, lifeVars>>

\* The container goes out of scope, which it can only once no borrow of it
\* is left: its fields are dropped in declaration order, foo first.
DropFoo(t) ==
    /\ module = "centralized_dependencies"
    /\ pc[t] = "idle" /\ Free(t)
    /\ \A u \in Threads : lent[u] # t
    /\ arcs' = Arc_drop(arcs, held[t].foo)
    /\ held' = [held EXCEPT ![t].foo = 0]
    /\ pc' = [pc EXCEPT ![t] = "dropping"]
    /\ UNCHANGED <<module, lent, acc, cons, outLock, assembled, io, lastRef,
                   handleVars, lifeVars>>

DropBar(t) ==
    /\ module = "centralized_dependencies"
    /\ pc[t] = "dropping"
    /\ arcs' = Arc_drop(arcs, held[t].bar)
    /\ held' = [held EXCEPT ![t].bar = 0]
    /\ pc' = [pc EXCEPT ![t] = None]
    /\ UNCHANGED <<module, lent, acc, cons, outLock, assembled, io, lastRef,
                   handleVars, lifeVars>>

\* deps.foo(): thread t enters the accessor.
CallFoo(t) ==
    /\ module = "centralized_dependencies"
    /\ Free(t)
    /\ acc' = [acc EXCEPT ![t] = "foo"]
    /\ UNCHANGED <<module, arcs, held, pc, lent, cons, outLock, assembled, io,
                   lastRef, handleVars, lifeVars>>

\* deps.bar(): thread t enters the accessor.
CallBar(t) ==
    /\ module = "centralized_dependencies"
    /\ Free(t)
    /\ acc' = [acc EXCEPT ![t] = "bar"]
    /\ UNCHANGED <<module, arcs, held, pc, lent, cons, outLock, assembled, io,
                   lastRef, handleVars, lifeVars>>

\* { &self.foo } / { &self.bar }: the accessor thread t is in returns. In a
\* consumer call the thread goes on with the reference, through do_foo or
\* do_bar into the implementation's method, up to its println!.
AccReturn(t) ==
    /\ module = "centralized_dependencies"
    /\ acc[t] # None
    /\ lastRef' = Ref(t, acc[t], IF acc[t] = "foo" THEN foo(Deps_of(t))
                                                   ELSE bar(Deps_of(t)))
    /\ acc' = [acc EXCEPT ![t] = None]
    /\ cons' = IF cons[t].stage = "accessor"
               THEN [cons EXCEPT ![t].stage = "println",
                                 ![t].o = Consume(cons[t].fn, arcs, Deps_of(t), cons[t].o)]
               ELSE cons
    /\ UNCHANGED <<module, arcs, held, pc, lent, outLock, assembled, io,
                   handleVars, lifeVars>>

\* println!: thread t takes the lock of stdout, for which it waits while
\* another thread holds it.
StdoutLock(t) ==
    /\ module = "centralized_dependencies"
    /\ cons[t].stage = "println"
    /\ outLock = 0
    /\ outLock' = t
    /\ cons' = [cons EXCEPT ![t].stage = "locked"]
    /\ UNCHANGED <<module, arcs, held, pc, lent, acc, assembled, io, lastRef,
                   handleVars, lifeVars>>

\* println!: the line is written, the lock released, and the call returns.
StdoutWrite(t) ==
    /\ module = "centralized_dependencies"
    /\ cons[t].stage = "locked" /\ outLock = t
    /\ io' = [out |-> io.out \o cons[t].o.out, calls |-> cons[t].o.calls]
    /\ outLock' = 0
    /\ cons' = [cons EXCEPT ![t] = NoConsumer]
    /\ UNCHANGED <<module, arcs, held, pc, lent, acc, assembled, lastRef,
                   handleVars, lifeVars>>

\* my_struct.do_foo(deps.foo()): the call starts, deps.foo() is entered.
DoFoo(t) ==
    /\ module = "centralized_dependencies"
    /\ Free(t) /\ CanPrint
    /\ cons' = [cons EXCEPT ![t] = [stage |-> "accessor", fn |-> "do_foo", o |-> NewCall]]
    /\ acc' = [acc EXCEPT ![t] = "foo"]
    /\ UNCHANGED <<module, arcs, held, pc, lent, outLock, assembled, io, lastRef,
                   handleVars, lifeVars>>

\* my_struct.do_bar(deps.bar()): the call starts, deps.bar() is entered.
DoBar(t) ==
    /\ module = "centralized_dependencies"
    /\ Free(t) /\ CanPrint
    /\ cons' = [cons EXCEPT ![t] = [stage |-> "accessor", fn |-> "do_bar", o |-> NewCall]]
    /\ acc' = [acc EXCEPT ![t] = "bar"]
    /\ UNCHANGED <<module, arcs, held, pc, lent, outLock, assembled, io, lastRef,
                   handleVars, lifeVars>>

\* use_my_struct_with_deps(&my_struct, &deps): the call starts, deps.foo()
\* is entered.
UseMyStructWithDeps(t) ==
    /\ module = "centralized_dependencies"
    /\ Free(t) /\ CanPrint
    /\ cons' = [cons EXCEPT ![t] = [stage |-> "accessor", fn |-> "use_my_struct_with_deps", o |-> NewCall]]
    /\ acc' = [acc EXCEPT ![t] = "foo"]
    /\ UNCHANGED <<module, arcs, held, pc, lent, outLock, assembled, io, lastRef,
                   handleVars, lifeVars>>

\* use_my_struct_with_foo(&my_struct, deps.foo()): deps.foo() is entered.
UseMyStructWithFoo(t) ==
    /\ module = "centralized_dependencies"
    /\ Free(t) /\ CanPrint
    /\ cons' = [cons EXCEPT ![t] = [stage |-> "accessor", fn |-> "use_my_struct_with_foo", o |-> NewCall]]
    /\ acc' = [acc EXCEPT ![t] = "foo"]
    /\ UNCHANGED <<module, arcs, held, pc, lent, outLock, assembled, io, lastRef,
                   handleVars, lifeVars>>

DepsNext ==
    \/ \E f \in FooImpls, b \in BarImpls : Assemble(f, b)
    \/ \E o \in Threads, t \in Threads : Lend(o, t)
    \/ \E t \in Threads : Release(t)
    \/ \E t \in Threads : DropFoo(t)
    \/ \E t \in Threads : DropBar(t)
    \/ \E t \in Threads : CallFoo(t)
    \/ \E t \in Threads : CallBar(t)
    \/ \E t \in Threads : AccReturn(t)
    \/ \E t \in Threads : DoFoo(t)
    \/ \E t \in Threads : DoBar(t)
    \/ \E t \in Threads : UseMyStructWithDeps(t)
    \/ \E t \in Threads : UseMyStructWithFoo(t)
    \/ \E t \in Threads : StdoutLock(t)
    \/ \E t \in Threads : StdoutWrite(t)

\* =========================================================================
\* trait_abstraction.rs
\* =========================================================================
OneImpls == {"FooOne", "BarOne"}
TwoImpls == {"FooTwo", "BarTwo"}

BarTwo_default == "BarTwo"

\* #[derive(Default)] pub struct FooTwo;
FooTwo_default == "FooTwo"

new_no_default(one) == [one |-> one, two |-> BarTwo_default]

\* pub fn new(one: One) -> Self { Self { one, two: FooTwo::default() } }
new(one) == [one |-> one, two |-> FooTwo_default]

with_two_default(one, two) == [one |-> one, two |-> FooTwo_default]

\* pub fn with_two(one: One, two: Two) -> Self { Self { one, two } }
with_two(one, two) == [one |-> one, two |-> two]

get_first(self) == 1

\* fn get(&self) -> &MyStruct<Self::OneImpl, Self::TwoImpl> { self }
\* A borrow is the address of the value it borrows.
get(self) == self

Top == frames[Len(frames)]
SetTop(f) == [frames EXCEPT ![Len(frames)] = f]
Pop == SubSeq(frames, 1, Len(frames) - 1)
NoCall == None

\* The handle-bound function the body of fr.fn calls with its my_struct, if any:
\* use_my_struct_with_handle calls use_my_struct_with_handle_again, whose body
\* calls nothing.
callee(fr) ==
    IF fr.fn = "use_my_struct_with_handle" THEN "use_my_struct_with_handle_again"
                                           ELSE NoCall

\* let my_struct = MyStruct::new(one);
New(one) ==
    /\ module = "trait_abstraction"
    /\ frames = <<>> /\ Len(structs) < MaxStructs
    /\ structs' = Append(structs, new(one))
    /\ ctor' = Append(ctor, [fn |-> "new", one |-> one, two |-> None])
    /\ UNCHANGED <<module, frames, depVars, lifeVars>>

\* let my_struct = MyStruct::with_two(one, two);
WithTwo(one, two) ==
    /\ module = "trait_abstraction"
    /\ frames = <<>> /\ Len(structs) < MaxStructs
    /\ structs' = Append(structs, with_two(one, two))
    /\ ctor' = Append(ctor, [fn |-> "with_two", one |-> one, two |-> two])
    /\ UNCHANGED <<module, frames, depVars, lifeVars>>

\* use_my_struct_with_handle(&my_struct);
CallHandle(a) ==
    /\ module = "trait_abstraction"
    /\ frames = <<>> /\ a \in DOMAIN structs
    /\ frames' = <<[fn |-> "use_my_struct_with_handle", handle |-> a,
                    my_struct |-> 0, pc |-> "get"]>>
    /\ UNCHANGED <<module, structs, ctor, depVars, lifeVars>>

\* let my_struct = handle.get();   (in either handle-bound function)
HandleGet ==
    /\ module = "trait_abstraction"
    /\ frames # <<>> /\ Top.pc = "get"
    /\ frames' = SetTop([Top EXCEPT !.my_struct = get(Top.handle), !.pc = "body"])
    /\ UNCHANGED <<module, structs, ctor, depVars, lifeVars>>

\* use_my_struct_with_handle_again(my_struct);
CallNext ==
    /\ module = "trait_abstraction"
    /\ frames # <<>> /\ Top.pc = "body" /\ callee(Top) # NoCall
    /\ frames' = Append(SetTop([Top EXCEPT !.pc = "ret"]),
                        [fn |-> callee(Top), handle |-> Top.my_struct,
                         my_struct |-> 0, pc |-> "get"])
    /\ UNCHANGED <<module, structs, ctor, depVars, lifeVars>>

\* The end of a handle-bound function's body.
Return ==
    /\ module = "trait_abstraction"
    /\ frames # <<>>
    /\ \/ Top.pc = "ret"
       \/ Top.pc = "body" /\ callee(Top) = NoCall
    /\ frames' = Pop
    /\ UNCHANGED <<module, structs, ctor, depVars, lifeVars>>

HandleNext ==
    \/ \E one \in OneImpls : New(one)
    \/ \E one \in OneImpls, two \in TwoImpls : WithTwo(one, two)
    \/ \E a \in 1..MaxStructs : CallHandle(a)
    \/ HandleGet
    \/ CallNext
    \/ Return

\* =========================================================================
\* function_as_service.rs
\* =========================================================================
MeaningOfLife == 42
NVals == {0} \cup ((MeaningOfLife - NRadius)..(MeaningOfLife + NRadius))

NoService == [kind |-> None, meaning |-> FALSE]
Life      == [kind |-> "Life", meaning |-> FALSE]
NoRun     == [life |-> NoService, n |-> 0]

\* fn is_meaning_of_life(n: i32) -> bool { sleep(500 ms); n == 42 }
is_meaning_of_life(n, log) ==
    [value |-> (n = MeaningOfLife),
     calls |-> log \o <<"is_meaning_of_life", "thread::sleep">>]

\* impl LifeService for Life: check calls is_meaning_of_life(n)
Life_check(n, log) == is_meaning_of_life(n, Append(log, "Life::check"))

\* #[derive(Default)] struct StubLife { meaning: bool }
StubLife_default == [kind |-> "StubLife", meaning |-> FALSE]

\* fn always_correct(mut self) -> Self
always_correct(self) == [self EXCEPT !.meaning = TRUE]

\* fn always_wrong(mut self) -> Self
always_wrong(self) == [self EXCEPT !.meaning = FALSE]

\* impl LifeService for StubLife: check returns self.meaning
StubLife_check(self, n, log) ==
    [value |-> self.meaning, calls |-> Append(log, "StubLife::check")]

\* life.check(n), dispatched on the type L of life
check(life, n, log) ==
    IF life.kind = "Life" THEN Life_check(n, log)
                          ELSE StubLife_check(life, n, log)

run_direct(life, n) ==
    LET r == is_meaning_of_life(n, <<"run_meaning_of_life">>)
    IN  [value |-> IF r.value THEN "yay!" ELSE ":frown:", calls |-> r.calls]

\* fn run_meaning_of_life<L: LifeService>(life: L, n: i32) -> String
run_meaning_of_life(life, n) ==
    LET r == check(life, n, <<"run_meaning_of_life">>)
    IN  [value |-> IF r.value THEN "yay!" ELSE ":frown:", calls |-> r.calls]

\* let service = Life;
MakeLife ==
    /\ module = "function_as_service"
    /\ service = NoService /\ lpc = "idle"
    /\ service' = Life
    /\ UNCHANGED <<module, ran, result, lcalls, lpc, depVars, handleVars>>

\* let service = StubLife::default()
MakeStub ==
    /\ module = "function_as_service"
    /\ service = NoService /\ lpc = "idle"
    /\ service' = StubLife_default
    /\ UNCHANGED <<module, ran, result, lcalls, lpc, depVars, handleVars>>

\* service.always_correct()
AlwaysCorrect ==
    /\ module = "function_as_service"
    /\ service.kind = "StubLife" /\ lpc = "idle"
    /\ service' = always_correct(service)
    /\ UNCHANGED <<module, ran, result, lcalls, lpc, depVars, handleVars>>

\* service.always_wrong()
AlwaysWrong ==
    /\ module = "function_as_service"
    /\ service.kind = "StubLife" /\ lpc = "idle"
    /\ service' = always_wrong(service)
    /\ UNCHANGED <<module, ran, result, lcalls, lpc, depVars, handleVars>>

\* Whether a call with this log is waiting in thread::sleep.
Waits(calls) == "thread::sleep" \in Range(calls)

\* let result = run_meaning_of_life(service, n);   (service is moved in)
\* With a service whose check does not wait, the call returns at once. With
\* Life, check calls is_meaning_of_life, which first sleeps for 500 ms: the
\* caller is left waiting, with no result yet.
Run(n) ==
    /\ module = "function_as_service"
    /\ service # NoService /\ lpc = "idle"
    /\ LET r == run_meaning_of_life(service, n)
       IN /\ lcalls' = r.calls
          /\ IF Waits(r.calls)
                THEN result' = None /\ lpc' = "sleeping"
                ELSE result' = r.value /\ lpc' = "idle"
    /\ ran' = [life |-> service, n |-> n]
    /\ service' = NoService
    /\ UNCHANGED <<module, depVars, handleVars>>

\* The sleep is over: is_meaning_of_life evaluates n == 42, check returns it,
\* and run_meaning_of_life builds its String.
Wake ==
    /\ module = "function_as_service"
    /\ lpc = "sleeping"
    /\ result' = run_meaning_of_life(ran.life, ran.n).value
    /\ lpc' = "idle"
    /\ UNCHANGED <<module, service, ran, lcalls, depVars, handleVars>>

LifeNext ==
    \/ MakeLife
    \/ MakeStub
    \/ AlwaysCorrect
    \/ AlwaysWrong
    \/ \E n \in NVals : Run(n)
    \/ Wake

\* =========================================================================
Modules == {"centralized_dependencies", "trait_abstraction", "function_as_service"}

Init ==
    /\ module \in Modules
    /\ arcs = <<>>
    /\ held = [t \in Threads |-> NoContainer]
    /\ pc = [t \in Threads |-> None]
    /\ lent = [t \in Threads |-> 0]
    /\ acc = [t \in Threads |-> None]
    /\ cons = [t \in Threads |-> NoConsumer]
    /\ outLock = 0
    /\ assembled = NoAssembly
    /\ io = [out |-> <<>>, calls |-> <<>>]
    /\ lastRef = NoRef
    /\ structs = <<>>
    /\ ctor = <<>>
    /\ frames = <<>>
    /\ service = NoService
    /\ ran = NoRun
    /\ result = None
    /\ lcalls = <<>>
    /\ lpc = "idle"

Next == DepsNext \/ HandleNext \/ LifeNext

Spec == Init /\ [][Next]_vars

\* =========================================================================
\* Properties
\* =========================================================================
Last(q) == q[Len(q)]
Count(q, x) == Cardinality({i \in DOMAIN q : q[i] = x})
\* The documented observable effect of each implementation.
EffectOf(impl) ==
    CASE impl = "FooImplA" -> "foo A"
      [] impl = "FooImplB" -> "foo B"
      [] impl = "BarImplA" -> "bar A"
      [] impl = "BarImplB" -> "bar B"

\* C1: MyStruct::do_foo(deps.foo()) has exactly the effect of the Foo
\* implementation the container was assembled with, and do_bar(deps.bar())
\* exactly that of the Bar implementation: the call reaches that
\* implementation's method and no other, and prints its line.
C1_NarrowConsumersReachAssembledImpl ==
    /\ \A i \in DOMAIN io.out :
           io.out[i] \in {EffectOf(assembled.foo), EffectOf(assembled.bar)}
    /\ (Len(io.calls) >= 2 /\ io.calls[1] = "Deps::foo"
            /\ io.calls[2] = "MyStruct::do_foo") =>
         /\ io.calls = <<"Deps::foo", "MyStruct::do_foo", assembled.foo \o "::foo">>
         /\ Last(io.out) = EffectOf(assembled.foo)
    /\ (Len(io.calls) >= 2 /\ io.calls[1] = "Deps::bar"
            /\ io.calls[2] = "MyStruct::do_bar") =>
         /\ io.calls = <<"Deps::bar", "MyStruct::do_bar", assembled.bar \o "::bar">>
         /\ Last(io.out) = EffectOf(assembled.bar)

\* {Foo -> FooImplA, Bar -> BarImplB}: do_foo printed "foo A", then do_bar "bar B".
C1_Witness ==
    /\ assembled = [foo |-> "FooImplA", bar |-> "BarImplB"]
    /\ io.out = <<"foo A", "bar B">>
    /\ io.calls = <<"Deps::bar", "MyStruct::do_bar", "BarImplB::bar">>

\* C2: run_meaning_of_life returns "yay!" exactly when life.check(n) is true
\* and ":frown:" otherwise; with a StubLife the result follows the stub's
\* value for every n, is_meaning_of_life is not called and the call never
\* waits; with Life the call goes through is_meaning_of_life and, once it
\* has returned, the result follows n == 42.
C2_RunReflectsService ==
    ran # NoRun =>
        /\ ran.life.kind = "StubLife" =>
              /\ lpc = "idle"
              /\ "is_meaning_of_life" \notin Range(lcalls)
              /\ "thread::sleep" \notin Range(lcalls)
        /\ ran.life.kind = "Life" => "is_meaning_of_life" \in Range(lcalls)
        /\ lpc = "sleeping" => result = None
        /\ lpc = "idle" =>
              /\ result \in {"yay!", ":frown:"}
              /\ (result = "yay!") <=> check(ran.life, ran.n, <<>>).value
              /\ ran.life.kind = "StubLife" =>
                    ((result = "yay!") <=> ran.life.meaning)
              /\ ran.life.kind = "Life" =>
                    ((result = "yay!") <=> (ran.n = MeaningOfLife))

\* A stub fixed to false was asked about 42, where the real check says true.
C2_Witness ==
    /\ ran = [life |-> [kind |-> "StubLife", meaning |-> FALSE], n |-> MeaningOfLife]
    /\ result = ":frown:"

\* C3: a container that is held can be cloned, and the clone is shallow: the
\* copy's foo() and bar() point at the allocations of the original, whose
\* strong counts go up by one, and nothing is allocated.
C3_CloneIsShallow ==
    \A s \in Threads, d \in Threads :
        (s # d /\ pc[s] = "idle" /\ pc[d] = None) =>
            ENABLED (/\ Clone(s, d)
                     /\ foo(held'[d]) = foo(held[s]) /\ bar(held'[d]) = bar(held[s])
                     /\ Len(arcs') = Len(arcs)
                     /\ arcs'[foo(held[s])].strong = arcs[foo(held[s])].strong + 1
                     /\ arcs'[bar(held[s])].strong = arcs[bar(held[s])].strong + 1)

\* C4: no operation replaces a slot: in every state each slot of every
\* container copy holds the implementation chosen at assembly, and each
\* slot of every MyStruct the implementation its constructor was given.
C4_SlotsNeverReplaced ==
    /\ \A t \in Threads :
          /\ held[t].foo # 0 => arcs[held[t].foo].impl = assembled.foo
          /\ held[t].bar # 0 => arcs[held[t].bar].impl = assembled.bar
    /\ \A a \in DOMAIN structs :
          /\ structs[a].one = ctor[a].one
          /\ structs[a].two =
                (IF ctor[a].fn = "new" THEN "FooTwo" ELSE ctor[a].two)

\* Consumers have run on the container until the output is exhausted, the
\* last of them use_my_struct_with_deps.
C4_Witness ==
    /\ pc[1] = "idle"
    /\ Len(io.out) = MaxOut
    /\ lastRef.thread = 1
    /\ io.calls[1] = "use_my_struct_with_deps"

C6_DepsNarrowsToFoo ==
    (io.calls # <<>> /\ io.calls[1] = "use_my_struct_with_deps") =>
        LET direct == use_my_struct_with_foo(arcs, 1, [out |-> <<>>, calls |-> <<>>])
        IN  /\ io.calls = <<"use_my_struct_with_deps", "Deps::foo",
                            "MyStruct::do_foo", assembled.foo \o "::foo">>
            /\ Count(io.calls, "MyStruct::do_foo") = 1
            /\ Count(direct.calls, "MyStruct::do_foo") = 1
            /\ Last(io.out) = Last(direct.out)
            /\ Range(io.calls) \cap {"Deps::bar", "MyStruct::do_bar",
                                     "BarImplA::bar", "BarImplB::bar"} = {}

\* use_my_struct_with_deps ran on a container assembled with FooImplB.
C6_Witness ==
    /\ assembled.foo = "FooImplB"
    /\ io.calls # <<>> /\ io.calls[1] = "use_my_struct_with_deps"
    /\ Last(io.out) = "foo B"

\* C7: MyStruct::new(one) holds FooTwo in its defaulted slot, is the value
\* with_two(one, FooTwo::default()) builds, and is reached unchanged
\* through MyStructHandle::get.
C7_NewDefaultsTwo ==
    \A a \in DOMAIN structs :
        ctor[a].fn = "new" =>
            /\ structs[a].two = "FooTwo"
            /\ structs[a] = with_two(ctor[a].one, FooTwo_default)
            /\ structs[get(a)].two = "FooTwo"
            /\ \A i \in DOMAIN frames :
                  (frames[i].handle = a /\ frames[i].my_struct # 0) =>
                      structs[frames[i].my_struct] = with_two(ctor[a].one, "FooTwo")

\* MyStruct::new(BarOne) was passed to use_my_struct_with_handle, which has
\* called get on it.
C7_Witness ==
    /\ Len(structs) >= 1 /\ ctor[1] = [fn |-> "new", one |-> "BarOne", two |-> None]
    /\ frames # <<>> /\ frames[1].handle = 1 /\ frames[1].my_struct = 1

\* C10: get returns a borrow of the very MyStruct it is called on, so get
\* is idempotent; use_my_struct_with_handle passes it on to
\* use_my_struct_with_handle_again, which reaches the same value, and the
\* chain ends there: nothing is called from use_my_struct_with_handle_again.
C10_GetReturnsSelf ==
    /\ \A a \in DOMAIN structs : get(a) = a /\ get(get(a)) = get(a)
    /\ Len(frames) <= 2
    /\ \A i \in DOMAIN frames :
          /\ frames[i].handle = frames[1].handle
          /\ frames[i].my_struct \in {0, frames[i].handle}
          /\ frames[i].fn = (IF i = 1 THEN "use_my_struct_with_handle"
                                      ELSE "use_my_struct_with_handle_again")
    /\ (Len(frames) = 2 /\ frames[2].pc = "body") =>
          (ENABLED Return) /\ ~(ENABLED CallNext)

\* use_my_struct_with_handle_again has called get on the second struct built.
C10_Witness ==
    /\ Len(frames) = 2
    /\ frames[2].handle = 2 /\ frames[2].my_struct = 2 /\ frames[2].pc = "body"
====
